---- MODULE Spec2Model ----
(***************************************************************************)
(* Model of the hipchat add-on integration (package hipchat):              *)
(*   store.go     Integration: install/remove webhooks, token cache,       *)
(*                GetTokenForRoom, ParseSignedParams                       *)
(*   sqlstore.go  SqlStore: the credential store                           *)
(*   postgres_schema.sql  the installation table and its constraints       *)
(* Every goroutine (a request handler, a background CompleteInstallation,  *)
(* a GetTokenForRoom call) is one entry of ops; its pc is its position in  *)
(* the code.  The token map is a plain Go map: an access is an interval    *)
(* (BeginRead..EndRead, BeginWrite..EndWrite), and two overlapping         *)
(* accesses with a writer are a data race whose outcome is chosen          *)
(* nondeterministically among what the Go runtime can produce.             *)
(***************************************************************************)
EXTENDS Integers, Sequences, FiniteSets, TLC

\* ---------------------------------------------------------------- bounds
MaxOps == 3          \* operations (webhooks, GetTokenForRoom calls) started
MaxGroup == 1        \* group ids 1..MaxGroup
MaxRoom == 1         \* room ids 0..MaxRoom (0: no room scope)
MaxCallbacks == 1    \* callbacks registered per list

OAuthIDs == {"abc", "def"}
Secrets == {"s3cr3t"}
GroupIDs == 1..MaxGroup
RoomIDs == 0..MaxRoom
OpIDs == 1..MaxOps

\* ---------------------------------------------------------------- data
\* store.go:24-30 (capabilitiesUrl carries no behaviour; one value)
InstallRecord ==
    [capabilitiesUrl : {"cap"}, oauthId : OAuthIDs, oauthSecret : Secrets,
     groupId : GroupIDs, roomId : RoomIDs]

\* the zero InstallRecord, and the value of a nil *InstallRecord slot
NoRecord ==
    [capabilitiesUrl |-> "", oauthId |-> "", oauthSecret |-> "",
     groupId |-> 0, roomId |-> 0]

\* An access token as returned by the platform for one exchange: the n-th
\* exchange, made with client credentials (cid, secret).
NoToken == [cid |-> "", secret |-> "", n |-> 0]          \* Go's ""
\* a string whose pointer and length words come from two different writes
TornToken == [cid |-> "?", secret |-> "?", n |-> 0]

\* store.go:148 and store.go:221: fmt.Sprintf("%v:%v", group, room)
Key(groupID, roomID) == ToString(groupID) \o ":" \o ToString(roomID)

VARIABLES
    store,                  \* rows of table installation
    tokens,                 \* Integration.tokens: key -> access token
    installationCallbacks,  \* Integration.installationCallbacks
    removedCallbacks,       \* Integration.removedCallbacks
    ops,                    \* the goroutines: requests, background tasks
    nOps,                   \* operations started so far
    nExch,                  \* token exchanges performed so far
    crashed,                \* the runtime aborted the process (fatal error)
    jwtReq,                 \* the request handed to ParseSignedParams
    jwtRes,                 \* what ParseSignedParams returned for it
    jwtCalls,               \* ParseSignedParams calls made
    jwtPrev,                \* what the call before the last rotation returned
    stCall                  \* the last call made on the Store alone

jwtVars == <<jwtReq, jwtRes, jwtCalls, jwtPrev>>

vars == <<store, tokens, installationCallbacks, removedCallbacks, ops, nOps,
          nExch, crashed, jwtReq, jwtRes, jwtCalls, jwtPrev, stCall>>

\* One call on the Store: op names the method, rec / id / group / room are
\* its arguments, pre the rows before it, err and out what it returned.
NoCall ==
    [op |-> "none", rec |-> NoRecord, id |-> "", group |-> 0, room |-> 0,
     dbOk |-> TRUE, pre |-> {}, err |-> "", out |-> NoRecord]

\* One goroutine.  kind: which entry point; pc: position; status: the HTTP
\* status written (0: none); rec: the install record / loaded credentials;
\* room, key: GetTokenForRoom's argument and tenant key; exch: exchanges this
\* operation called, as <<id, secret, scopes>>; tok: token obtained;
\* res, err: what the call returned; raced: the map access in progress
\* overlaps a conflicting one; cbs: callbacks started; pre: the rows the
\* removed client owned when it was deleted.
IdleOp ==
    [kind |-> "none", pc |-> "idle", status |-> 0, rec |-> NoRecord,
     room |-> 0, key |-> "", exch |-> <<>>, tok |-> NoToken, res |-> NoToken,
     err |-> "", raced |-> "no", cbs |-> <<>>, pre |-> {}, hit |-> FALSE]

\* ---------------------------------------------------------------- store
\* postgres_schema.sql:5-16: oauthId is the primary key, (groupId, roomId)
\* has a unique index.
ConstraintViolation(st, i) ==
    \E x \in st : \/ x.oauthId = i.oauthId
                  \/ (x.groupId = i.groupId /\ x.roomId = i.roomId)

\* sqlstore.go:37-46: a plain INSERT; dbOk is the connection's health
SaveCredentialsErr(st, i, dbOk) == ~dbOk \/ ConstraintViolation(st, i)

SaveCredentials(st, i, dbOk) ==
    IF SaveCredentialsErr(st, i, dbOk) THEN st ELSE st \cup {i}

\* DeleteCredentials reporting an error when the DELETE matched no row
DeleteCredentialsErr_NoRow(st, oAuthID, dbOk) ==
    ~dbOk \/ \A x \in st : x.oauthId # oAuthID

\* sqlstore.go:50-51: the error of Exec, which a DELETE that matches no row
\* does not raise
DeleteCredentialsErr(st, oAuthID, dbOk) == ~dbOk

\* sqlstore.go:49-52: DELETE ... WHERE oauthId = $1
DeleteCredentials(st, oAuthID, dbOk) ==
    IF dbOk THEN {x \in st : x.oauthId # oAuthID} ELSE st

\* sqlstore.go:21-34: SELECT groupid ... WHERE roomid = $1; QueryRow takes
\* the first row of an unordered result; no row gives (0, nil).
GetGroupID(st, roomID) ==
    IF \E x \in st : x.roomId = roomID
    THEN {x.groupId : x \in {y \in st : y.roomId = roomID}}
    ELSE {0}

\* sqlstore.go:55-68: SELECT ... WHERE groupId = $1 (the room is not part
\* of the query); no row gives (nil, nil), here NoRecord.
GetCredentials(st, groupID, roomID) ==
    IF \E x \in st : x.groupId = groupID
    THEN {x \in st : x.groupId = groupID}
    ELSE {NoRecord}

\* ---------------------------------------------------------------- map
\* the value of tokens after tokens[key] = tok
MapPut(m, key, tok) ==
    [k \in DOMAIN m \cup {key} |-> IF k = key THEN tok ELSE m[k]]

InAccess(t) == ops[t].pc \in {"reading", "writing"}

\* accesses in progress that conflict with an access of the given mode
Conflicting(t, writes) ==
    {u \in OpIDs \ {t} : InAccess(u) /\ (writes \/ ops[u].pc = "writing")}

\* among them, writers of the same map slot
SameSlotWriters(t, key) ==
    {u \in OpIDs \ {t} : ops[u].pc = "writing" /\ Key(ops[u].rec.groupId, ops[u].rec.roomId) = key}

RaceKind(t, writes, key) ==
    IF writes /\ SameSlotWriters(t, key) # {} THEN "ww"
    ELSE IF Conflicting(t, writes) # {} THEN "rw"
    ELSE "no"

Worse(a, b) == IF "ww" \in {a, b} THEN "ww" ELSE IF "rw" \in {a, b} THEN "rw" ELSE "no"

\* ---------------------------------------------------------------- signed requests
MaxCalls == 2        \* ParseSignedParams calls on one Integration

\* secrets the installation table may hold for an OAuth client
JwtSecrets == {"s3cr3t", "hunter2"}

\* A decoded JSON value of a claim (interface{}): a string, a number
\* (float64; frac: it has a fractional part) or nil (absent / null).
JStr(v) == [t |-> "string", s |-> v, n |-> 0, frac |-> FALSE]
JNum(v, hasFrac) == [t |-> "number", s |-> "", n |-> v, frac |-> hasFrac]
JNil == [t |-> "nil", s |-> "", n |-> 0, frac |-> FALSE]

RoomClaims == {JNil, JStr("42"), JNum(42, FALSE), JNum(42, TRUE), JNum(0, FALSE)}
TzClaims == {JNil, JStr("UTC"), JNum(1, FALSE)}
IssClaims == {JStr("abc"), JStr("def"), JNum(7, FALSE), JNil}

\* the "context" claim: a JSON object with room_id and user_tz, or a value
\* of another type
ContextClaims ==
    [isMap : {TRUE}, room_id : RoomClaims, user_tz : TzClaims]
      \cup {[isMap |-> FALSE, room_id |-> JNil, user_tz |-> JNil]}

\* "HS256" is HMAC, "RS256" is registered and not HMAC, "bogus" is not
\* registered with the jwt package
Algs == {"HS256", "RS256", "bogus"}

\* header and claims: the part of a compact JWT that is signed
SigningInputs == [alg : Algs, iss : IssClaims, context : ContextClaims]

\* the signature a signer holding key produces over msg with method alg
Sign(alg, key, msg) == [alg |-> alg, key |-> key, msg |-> msg]

BadSignature ==
    [alg |-> "", key |-> "",
     msg |-> [alg |-> "", iss |-> JNil,
              context |-> [isMap |-> FALSE, room_id |-> JNil, user_tz |-> JNil]]]

\* a compact JWT string: three segments, or a string that is none
WellFormedTokens ==
    {[wellFormed |-> TRUE, signed |-> m, sig |-> g] :
        m \in SigningInputs,
        g \in {BadSignature}} \cup
    {[wellFormed |-> TRUE, signed |-> m, sig |-> Sign(m.alg, k, m)] :
        m \in SigningInputs, k \in JwtSecrets}

MalformedToken ==
    [wellFormed |-> FALSE, signed |-> BadSignature.msg, sig |-> BadSignature]

TokenStrings == WellFormedTokens \cup {MalformedToken}

\* the token of the scenario of spec section 8, signed with each secret
ScenarioInput ==
    [alg |-> "HS256", iss |-> JStr("abc"),
     context |-> [isMap |-> TRUE, room_id |-> JNum(42, FALSE), user_tz |-> JStr("UTC")]]

FewTokens ==
    {MalformedToken} \cup
    {[wellFormed |-> TRUE, signed |-> ScenarioInput, sig |-> Sign("HS256", k, ScenarioInput)] :
        k \in JwtSecrets}

\* A request: the Authorization header (scheme with its trailing space and
\* the rest of the value; hasAuth FALSE: no header) and the signed_request
\* form field (hasForm FALSE: absent or empty).
Schemes == {"JWT ", "jwt ", "Bearer "}

Request(hasAuth, scheme, authTok, hasForm, formTok) ==
    [hasAuth |-> hasAuth, scheme |-> scheme, authTok |-> authTok,
     hasForm |-> hasForm, formTok |-> formTok]

NoRequest == Request(FALSE, "", MalformedToken, FALSE, MalformedToken)

Requests ==
    {Request(TRUE, sc, tk, FALSE, MalformedToken) : sc \in Schemes, tk \in TokenStrings}
    \cup {Request(FALSE, "", MalformedToken, TRUE, tk) : tk \in TokenStrings}
    \cup {Request(TRUE, sc, tk, TRUE, ft) : sc \in Schemes, tk \in FewTokens, ft \in FewTokens}
    \cup {NoRequest}

\* store.go:234-237
SignedParams(roomID, tz) == [RoomID |-> roomID, UserTimezone |-> tz]
NoSignedParams == [RoomID |-> 0, UserTimezone |-> ""]       \* nil

\* what ParseSignedParams returns: (*SignedParams, error); err "" is nil
Result(err, sp) == [done |-> TRUE, err |-> err, params |-> sp]
Pending == [done |-> FALSE, err |-> "", params |-> NoSignedParams]

\* strings.ToUpper on the header's scheme (store.go:306)
ToUpper(scheme) == IF scheme = "jwt " THEN "JWT " ELSE IF scheme = "Bearer " THEN "BEARER " ELSE scheme

\* the installation table's secret for an OAuth client: Store.GetOAuthSecret
GetOAuthSecret(st, oauthID, dbOk) ==
    IF ~dbOk THEN [err |-> "store", secret |-> ""]
    ELSE IF \E x \in st : x.oauthId = oauthID
    THEN [err |-> "", secret |-> (CHOOSE x \in st : x.oauthId = oauthID).oauthSecret]
    ELSE [err |-> "unknown issuer", secret |-> ""]

\* keyFunc with the lookup keyed by some installed client instead of the
\* token's issuer
keyFunc_AnyClient(token, st, dbOk) ==
    IF token.alg # "HS256"
    THEN [err |-> "unexpected signing method", secret |-> ""]
    ELSE IF token.iss.t = "string"
    THEN IF st = {} THEN GetOAuthSecret(st, token.iss.s, dbOk)
         ELSE GetOAuthSecret(st, (CHOOSE x \in st : TRUE).oauthId, dbOk)
    ELSE [err |-> "iss header of wrong type", secret |-> ""]

\* keyFunc handing the client's secret out whatever the token's method is
keyFunc_AnyMethod(token, st, dbOk) ==
    IF token.iss.t = "string"
    THEN GetOAuthSecret(st, token.iss.s, dbOk)
    ELSE [err |-> "iss header of wrong type", secret |-> ""]

\* store.go:284-301: the key function handed to jwt.Parse
keyFunc(token, st, dbOk) ==
    IF token.alg # "HS256"
    THEN [err |-> "unexpected signing method", secret |-> ""]
    ELSE IF token.iss.t = "string"
    THEN GetOAuthSecret(st, token.iss.s, dbOk)
    ELSE [err |-> "iss header of wrong type", secret |-> ""]

\* jwt.SigningMethod.Verify: the signature is the one the method produces
\* over the signing string with this key
MethodVerify(alg, signingString, signature, key) ==
    signature = Sign(alg, key, signingString)

\* store.go:321: jwt.Parse(tokenStr, keyFunc): split, decode, look the
\* method up, ask keyFunc for the key, verify the signature; the result is
\* the error text, "" for a valid token.  The tokens carry no exp or nbf
\* claim, so the library's time checks never apply.
JwtParse(tokenStr, st, dbOk) ==
    IF ~tokenStr.wellFormed THEN "token contains an invalid number of segments"
    ELSE IF tokenStr.signed.alg \notin {"HS256", "RS256"}
    THEN "signing method (alg) is unavailable"
    ELSE IF keyFunc(tokenStr.signed, st, dbOk).err # ""
    THEN keyFunc(tokenStr.signed, st, dbOk).err
    ELSE IF ~MethodVerify(tokenStr.signed.alg, tokenStr.signed, tokenStr.sig,
                          keyFunc(tokenStr.signed, st, dbOk).secret)
    THEN "signature is invalid"
    ELSE ""

\* store.go:275: uint32(v.(float64)) drops the fractional part
ToUint32(v) == v.n

\* extractType leaving *dest at its zero value, with no error, when the
\* claim has another type
extractType_ZeroOnMismatch(dict, key, dest) ==
    IF dict[key].t = "nil"
    THEN [err |-> "Missing signed parameter " \o key, val |-> JNil]
    ELSE IF dest = "*string" /\ dict[key].t = "string"
    THEN [err |-> "", val |-> dict[key]]
    ELSE IF dest = "*uint32" /\ dict[key].t = "number"
    THEN [err |-> "", val |-> JNum(ToUint32(dict[key]), FALSE)]
    ELSE [err |-> "", val |-> JNil]

\* store.go:261-280; dest is "*uint32" or "*string"; val is what *dest holds
\* afterwards
extractType(dict, key, dest) ==
    IF dict[key].t = "nil"
    THEN [err |-> "Missing signed parameter " \o key, val |-> JNil]
    ELSE IF dest = "*string" /\ dict[key].t = "string"
    THEN [err |-> "", val |-> dict[key]]
    ELSE IF dest = "*uint32" /\ dict[key].t = "number"
    THEN [err |-> "", val |-> JNum(ToUint32(dict[key]), FALSE)]
    ELSE [err |-> "Type mismatch for signed param " \o key, val |-> JNil]

\* store.go:243-259
NewSignedParams(token) ==
    IF ~token.context.isMap
    THEN Result("context of wrong type", NoSignedParams)
    ELSE IF extractType(token.context, "room_id", "*uint32").err # ""
    THEN Result("Error extracting room_id: "
                  \o extractType(token.context, "room_id", "*uint32").err,
                NoSignedParams)
    ELSE IF extractType(token.context, "user_tz", "*string").err # ""
    THEN Result("Error extracting user_tz: "
                  \o extractType(token.context, "user_tz", "*string").err,
                NoSignedParams)
    ELSE Result("", SignedParams(extractType(token.context, "room_id", "*uint32").val.n,
                                 extractType(token.context, "user_tz", "*string").val.s))

\* store.go:320-326
parse(tokenStr, st, dbOk) ==
    IF JwtParse(tokenStr, st, dbOk) # ""
    THEN Result(JwtParse(tokenStr, st, dbOk), NoSignedParams)
    ELSE NewSignedParams(tokenStr.signed)

\* ParseSignedParams looking at the form field first and matching the
\* header's prefix as written
ParseSignedParams_FormFirst(req, st, dbOk) ==
    IF req.hasForm
    THEN parse(req.formTok, st, dbOk)
    ELSE IF req.hasAuth /\ req.scheme = "JWT "
    THEN parse(req.authTok, st, dbOk)
    ELSE Result("no token present in request", NoSignedParams)

\* store.go:283-318
ParseSignedParams(req, st, dbOk) ==
    IF req.hasAuth /\ ToUpper(req.scheme) = "JWT "
    THEN parse(req.authTok, st, dbOk)
    ELSE IF req.hasForm
    THEN parse(req.formTok, st, dbOk)
    ELSE Result("no token present in request", NoSignedParams)

\* ---------------------------------------------------------------- init
\* store.go:43-61 NewIntegration, on an empty installation table
Init ==
    /\ store = {}
    /\ tokens = <<>>
    /\ installationCallbacks = <<>>
    /\ removedCallbacks = <<>>
    /\ ops = [t \in OpIDs |-> IdleOp]
    /\ nOps = 0
    /\ nExch = 0
    /\ crashed = FALSE
    /\ jwtReq = NoRequest
    /\ jwtRes = Pending
    /\ jwtCalls = 0
    /\ jwtPrev = Pending
    /\ stCall = NoCall

\* ---------------------------------------------------------------- actions
\* store.go:68-71.  The host registers its callbacks while it sets the
\* integration up, before the handler serves requests (nOps = 0).
AddInstallationCallback ==
    /\ ~crashed /\ nOps = 0
    /\ Len(installationCallbacks) < MaxCallbacks
    /\ installationCallbacks' =
         Append(installationCallbacks, Len(installationCallbacks) + 1)
    /\ UNCHANGED <<store, tokens, removedCallbacks, ops, nOps, nExch, crashed>>
    /\ UNCHANGED <<jwtVars, stCall>>

\* store.go:78-81
AddRemovedCallback ==
    /\ ~crashed /\ nOps = 0
    /\ Len(removedCallbacks) < MaxCallbacks
    /\ removedCallbacks' = Append(removedCallbacks, Len(removedCallbacks) + 1)
    /\ UNCHANGED <<store, tokens, installationCallbacks, ops, nOps, nExch, crashed>>
    /\ UNCHANGED <<jwtVars, stCall>>

\* handleInstalled without the return after a failed SaveCredentials: the
\* 500 is written and the handler goes on to start CompleteInstallation
handleInstalled_NoReturn(t, body, i, dbOk) ==
    /\ ~crashed
    /\ nOps < MaxOps /\ t = nOps + 1
    /\ nOps' = t
    /\ LET op == [IdleOp EXCEPT !.kind = "install"]
       IN  IF body # "valid"
           THEN /\ ops' = [ops EXCEPT ![t] =
                     [op EXCEPT !.pc = "done", !.status = 500, !.err = "decode"]]
                /\ store' = store
           ELSE IF SaveCredentialsErr(store, i, dbOk)
           THEN /\ ops' = [ops EXCEPT ![t] =
                     [op EXCEPT !.pc = "exchange", !.status = 500, !.err = "store",
                                !.rec = i]]
                /\ store' = SaveCredentials(store, i, dbOk)
           ELSE /\ ops' = [ops EXCEPT ![t] =
                     [op EXCEPT !.pc = "exchange", !.status = 200, !.rec = i]]
                /\ store' = SaveCredentials(store, i, dbOk)
    /\ UNCHANGED <<tokens, installationCallbacks, removedCallbacks, nExch, crashed>>
    /\ UNCHANGED <<jwtVars, stCall>>

\* store.go:83-122: the whole request handler, for the POST requests the
\* router dispatches to it (store.go:53).  body: "unreadable" (ReadAll
\* fails), "malformed" (Unmarshal fails) or "valid" (decodes to i).
handleInstalled(t, body, i, dbOk) ==
    /\ ~crashed
    /\ nOps < MaxOps /\ t = nOps + 1
    /\ nOps' = t
    /\ LET op == [IdleOp EXCEPT !.kind = "install"]
       IN  IF body # "valid"
           THEN /\ ops' = [ops EXCEPT ![t] =
                     [op EXCEPT !.pc = "done", !.status = 500, !.err = "decode"]]
                /\ store' = store
           ELSE IF SaveCredentialsErr(store, i, dbOk)
           THEN /\ ops' = [ops EXCEPT ![t] =
                     [op EXCEPT !.pc = "done", !.status = 500, !.err = "store"]]
                /\ store' = SaveCredentials(store, i, dbOk)
           ELSE /\ ops' = [ops EXCEPT ![t] =
                     [op EXCEPT !.pc = "exchange", !.status = 200, !.rec = i]]
                /\ store' = SaveCredentials(store, i, dbOk)
    /\ UNCHANGED <<tokens, installationCallbacks, removedCallbacks, nExch, crashed>>
    /\ UNCHANGED <<jwtVars, stCall>>

\* handleRemoved answering 500, with no callback, when the id had no row
handleRemoved_NotFound(t, oAuthID, dbOk) ==
    /\ ~crashed
    /\ nOps < MaxOps /\ t = nOps + 1
    /\ nOps' = t
    /\ LET op == [IdleOp EXCEPT !.kind = "remove", !.pc = "done",
                                !.rec = [NoRecord EXCEPT !.oauthId = oAuthID]]
       IN  IF DeleteCredentialsErr(store, oAuthID, dbOk)
           THEN /\ ops' = [ops EXCEPT ![t] = [op EXCEPT !.status = 500, !.err = "store"]]
                /\ store' = DeleteCredentials(store, oAuthID, dbOk)
           ELSE IF \A x \in store : x.oauthId # oAuthID
           THEN /\ ops' = [ops EXCEPT ![t] = [op EXCEPT !.status = 500]]
                /\ store' = DeleteCredentials(store, oAuthID, dbOk)
           ELSE /\ ops' = [ops EXCEPT ![t] =
                     [op EXCEPT !.status = 200, !.cbs = removedCallbacks,
                                !.pre = {x \in store : x.oauthId = oAuthID}]]
                /\ store' = DeleteCredentials(store, oAuthID, dbOk)
    /\ UNCHANGED <<tokens, installationCallbacks, removedCallbacks, nExch, crashed>>
    /\ UNCHANGED <<jwtVars, stCall>>

\* store.go:190-212: the whole request handler, for the DELETE requests the
\* router dispatches to it (store.go:55); err is what DeleteCredentials
\* returned
handleRemoved(t, oAuthID, dbOk) ==
    /\ ~crashed
    /\ nOps < MaxOps /\ t = nOps + 1
    /\ nOps' = t
    /\ LET op == [IdleOp EXCEPT !.kind = "remove", !.pc = "done",
                                !.rec = [NoRecord EXCEPT !.oauthId = oAuthID]]
       IN  IF DeleteCredentialsErr(store, oAuthID, dbOk)
           THEN /\ ops' = [ops EXCEPT ![t] = [op EXCEPT !.status = 500, !.err = "store"]]
                /\ store' = DeleteCredentials(store, oAuthID, dbOk)
           ELSE /\ ops' = [ops EXCEPT ![t] =
                     [op EXCEPT !.status = 200, !.cbs = removedCallbacks,
                                !.pre = {x \in store : x.oauthId = oAuthID}]]
                /\ store' = DeleteCredentials(store, oAuthID, dbOk)
    /\ UNCHANGED <<tokens, installationCallbacks, removedCallbacks, nExch, crashed>>
    /\ UNCHANGED <<jwtVars, stCall>>

\* getToken whose failed exchange rolls the installation back
getTokenExchange_Rollback(t, ok) ==
    /\ ~crashed
    /\ ops[t].pc = "exchange"
    /\ nExch' = nExch + 1
    /\ LET args == <<ops[t].rec.oauthId, ops[t].rec.oauthSecret, <<>>>>
           token == [cid |-> args[1], secret |-> args[2], n |-> nExch + 1]
           key == Key(ops[t].rec.groupId, ops[t].rec.roomId)
       IN  IF ok
           THEN /\ ops' = [u \in OpIDs |->
                     IF u = t
                     THEN [ops[t] EXCEPT !.pc = "writing", !.exch = Append(@, args),
                                         !.tok = token,
                                         !.raced = RaceKind(t, TRUE, key)]
                     ELSE IF u \in Conflicting(t, TRUE)
                     THEN [ops[u] EXCEPT !.raced =
                             Worse(@, IF u \in SameSlotWriters(t, key)
                                      THEN "ww" ELSE "rw")]
                     ELSE ops[u]]
                /\ store' = store
           ELSE /\ ops' = [ops EXCEPT ![t] =
                     [@ EXCEPT !.pc = "done", !.exch = Append(@, args),
                               !.err = "exchange"]]
                /\ store' = DeleteCredentials(store, ops[t].rec.oauthId, TRUE)
    /\ UNCHANGED <<tokens, installationCallbacks, removedCallbacks, nOps, crashed>>
    /\ UNCHANGED <<jwtVars, stCall>>

\* store.go:139-149: getToken calls GenerateToken with (OAuthID,
\* OAuthSecret, []string{}); the platform answers with a token (ok) or an
\* error.  With a token, the map assignment of store.go:149 begins.  With an
\* error, CompleteInstallation logs it and returns (store.go:127-131) and
\* GetTokenForRoom returns it (store.go:229).
getTokenExchange(t, ok) ==
    /\ ~crashed
    /\ ops[t].pc = "exchange"
    /\ nExch' = nExch + 1
    /\ LET args == <<ops[t].rec.oauthId, ops[t].rec.oauthSecret, <<>>>>
           token == [cid |-> args[1], secret |-> args[2], n |-> nExch + 1]
           key == Key(ops[t].rec.groupId, ops[t].rec.roomId)
       IN  IF ok
           THEN ops' = [u \in OpIDs |->
                  IF u = t
                  THEN [ops[t] EXCEPT !.pc = "writing", !.exch = Append(@, args),
                                      !.tok = token,
                                      !.raced = RaceKind(t, TRUE, key)]
                  ELSE IF u \in Conflicting(t, TRUE)
                  THEN [ops[u] EXCEPT !.raced =
                          Worse(@, IF u \in SameSlotWriters(t, key)
                                   THEN "ww" ELSE "rw")]
                  ELSE ops[u]]
           ELSE ops' = [ops EXCEPT ![t] =
                  [@ EXCEPT !.pc = "done", !.exch = Append(@, args),
                            !.err = "exchange"]]
    /\ UNCHANGED <<store, tokens, installationCallbacks, removedCallbacks, nOps, crashed>>
    /\ UNCHANGED <<jwtVars, stCall>>

\* what a map assignment can leave in the slot: the value; when another
\* assignment to the same slot overlapped it, also a torn string
WriteOutcomes(t) ==
    IF ops[t].raced = "ww" THEN {ops[t].tok, TornToken} ELSE {ops[t].tok}

\* store.go:149-151: the map assignment ends and getToken returns;
\* store.go:229 returns the token to GetTokenForRoom's caller,
\* store.go:127-133 goes on to the callbacks.
getTokenEndWrite(t, v) ==
    /\ ~crashed
    /\ ops[t].pc = "writing"
    /\ v \in WriteOutcomes(t)
    /\ tokens' = MapPut(tokens, Key(ops[t].rec.groupId, ops[t].rec.roomId), v)
    /\ ops' = [ops EXCEPT ![t] =
                IF ops[t].kind = "install"
                THEN [@ EXCEPT !.pc = "callbacks", !.raced = "no"]
                ELSE [@ EXCEPT !.pc = "done", !.raced = "no", !.res = ops[t].tok]]
    /\ UNCHANGED <<store, installationCallbacks, removedCallbacks, nOps, nExch, crashed>>
    /\ UNCHANGED <<jwtVars, stCall>>

\* the Go runtime detects the overlapping map accesses and aborts the
\* process ("fatal error: concurrent map writes" / "concurrent map read and
\* map write")
FatalMapError(t) ==
    /\ ~crashed
    /\ InAccess(t)
    /\ ops[t].raced # "no"
    /\ crashed' = TRUE
    /\ UNCHANGED <<store, tokens, installationCallbacks, removedCallbacks, ops, nOps, nExch>>
    /\ UNCHANGED <<jwtVars, stCall>>

\* store.go:133-135: go callback() for each registered callback
CompleteInstallationCallbacks(t) ==
    /\ ~crashed
    /\ ops[t].pc = "callbacks"
    /\ ops' = [ops EXCEPT ![t] = [@ EXCEPT !.pc = "done", !.cbs = installationCallbacks]]
    /\ UNCHANGED <<store, tokens, installationCallbacks, removedCallbacks, nOps, nExch, crashed>>
    /\ UNCHANGED <<jwtVars, stCall>>

\* store.go:214-221: GetTokenForRoom up to the key
GetTokenForRoom(t, roomID, groupID, dbOk) ==
    /\ ~crashed
    /\ nOps < MaxOps /\ t = nOps + 1
    /\ nOps' = t
    /\ groupID \in GetGroupID(store, roomID)
    /\ LET op == [IdleOp EXCEPT !.kind = "get", !.room = roomID]
       IN  ops' = [ops EXCEPT ![t] =
                IF ~dbOk
                THEN [op EXCEPT !.pc = "done"]         \* return "", nil
                ELSE [op EXCEPT !.pc = "read", !.key = Key(groupID, roomID),
                                !.rec = [NoRecord EXCEPT !.groupId = groupID]]]
    /\ UNCHANGED <<store, tokens, installationCallbacks, removedCallbacks, nExch, crashed>>
    /\ UNCHANGED <<jwtVars, stCall>>

\* store.go:223: the map read begins
GetTokenForRoomBeginRead(t) ==
    /\ ~crashed
    /\ ops[t].pc = "read"
    /\ ops' = [u \in OpIDs |->
                IF u = t
                THEN [ops[t] EXCEPT !.pc = "reading",
                                    !.raced = RaceKind(t, FALSE, ops[t].key)]
                ELSE IF u \in Conflicting(t, FALSE)
                THEN [ops[u] EXCEPT !.raced = Worse(@, "rw")]
                ELSE ops[u]]
    /\ UNCHANGED <<store, tokens, installationCallbacks, removedCallbacks, nOps, nExch, crashed>>
    /\ UNCHANGED <<jwtVars, stCall>>

\* store.go:223-224, 231: the map read ends; a hit returns the token
GetTokenForRoomEndRead(t) ==
    /\ ~crashed
    /\ ops[t].pc = "reading"
    /\ ops' = [ops EXCEPT ![t] =
                IF ops[t].key \in DOMAIN tokens
                THEN [@ EXCEPT !.pc = "done", !.raced = "no", !.hit = TRUE,
                               !.res = tokens[ops[t].key]]
                ELSE [@ EXCEPT !.pc = "creds", !.raced = "no"]]
    /\ UNCHANGED <<store, tokens, installationCallbacks, removedCallbacks, nOps, nExch, crashed>>
    /\ UNCHANGED <<jwtVars, stCall>>

\* store.go:225-229: load the credentials; getToken(credentials)
\* dereferences the pointer (store.go:142), which is nil when no row matched
GetTokenForRoomCredentials(t, credentials, dbOk) ==
    /\ ~crashed
    /\ ops[t].pc = "creds"
    /\ credentials \in GetCredentials(store, ops[t].rec.groupId, ops[t].room)
    /\ ops' = [ops EXCEPT ![t] =
                IF ~dbOk
                THEN [@ EXCEPT !.pc = "done", !.err = "store"]
                ELSE IF credentials = NoRecord
                THEN [@ EXCEPT !.pc = "panic", !.rec = NoRecord]
                ELSE [@ EXCEPT !.pc = "exchange", !.rec = credentials]]
    /\ UNCHANGED <<store, tokens, installationCallbacks, removedCallbacks, nOps, nExch, crashed>>
    /\ UNCHANGED <<jwtVars, stCall>>

Bodies == {"unreadable", "malformed", "valid"}

Next ==
    \/ AddInstallationCallback
    \/ AddRemovedCallback
    \/ \E t \in OpIDs, body \in Bodies, i \in InstallRecord, dbOk \in BOOLEAN :
          handleInstalled(t, body, i, dbOk)
    \/ \E t \in OpIDs, oAuthID \in OAuthIDs, dbOk \in BOOLEAN :
          handleRemoved(t, oAuthID, dbOk)
    \/ \E t \in OpIDs, ok \in BOOLEAN : getTokenExchange(t, ok)
    \/ \E t \in OpIDs : \E v \in {ops[t].tok, TornToken} : getTokenEndWrite(t, v)
    \/ \E t \in OpIDs : FatalMapError(t)
    \/ \E t \in OpIDs : CompleteInstallationCallbacks(t)
    \/ \E t \in OpIDs, roomID \in RoomIDs, groupID \in 0..MaxGroup, dbOk \in BOOLEAN :
          GetTokenForRoom(t, roomID, groupID, dbOk)
    \/ \E t \in OpIDs : GetTokenForRoomBeginRead(t)
    \/ \E t \in OpIDs : GetTokenForRoomEndRead(t)
    \/ \E t \in OpIDs, credentials \in InstallRecord \cup {NoRecord}, dbOk \in BOOLEAN :
          GetTokenForRoomCredentials(t, credentials, dbOk)

Spec == Init /\ [][Next]_vars

\* ---------------------------------------------------------------- signed requests
\* the rows the table holds for the OAuth clients, one tenant each
JwtRecord(id, secret) ==
    [capabilitiesUrl |-> "cap", oauthId |-> id, oauthSecret |-> secret,
     groupId |-> 1, roomId |-> IF id = "abc" THEN 0 ELSE 1]

JwtStores ==
    {{JwtRecord(id, sc[id]) : id \in ids} : sc \in [OAuthIDs -> JwtSecrets], ids \in SUBSET OAuthIDs}

\* NewIntegration over a table that holds earlier installations; req is the
\* request ParseSignedParams is about to be called with
InitJWT ==
    /\ store \in JwtStores
    /\ tokens = <<>>
    /\ installationCallbacks = <<>>
    /\ removedCallbacks = <<>>
    /\ ops = [t \in OpIDs |-> IdleOp]
    /\ nOps = 0
    /\ nExch = 0
    /\ crashed = FALSE
    /\ jwtReq \in Requests
    /\ jwtRes = Pending
    /\ jwtCalls = 0
    /\ jwtPrev = Pending
    /\ stCall = NoCall

lifecycleVars ==
    <<tokens, installationCallbacks, removedCallbacks, ops, nOps, nExch, crashed>>

\* a call that verifies with the key fetched by the call before it
ParseSignedParamsCall_Cached(dbOk) ==
    /\ ~jwtRes.done
    /\ jwtCalls < MaxCalls
    /\ jwtRes' = IF jwtPrev.done THEN jwtPrev ELSE ParseSignedParams(jwtReq, store, dbOk)
    /\ jwtCalls' = jwtCalls + 1
    /\ UNCHANGED <<store, jwtReq, jwtPrev, stCall>>
    /\ UNCHANGED lifecycleVars

\* store.go:283-318: one call of ParseSignedParams
ParseSignedParamsCall(dbOk) ==
    /\ ~jwtRes.done
    /\ jwtCalls < MaxCalls
    /\ jwtRes' = ParseSignedParams(jwtReq, store, dbOk)
    /\ jwtCalls' = jwtCalls + 1
    /\ UNCHANGED <<store, jwtReq, jwtPrev, stCall>>
    /\ UNCHANGED lifecycleVars

\* the client's secret is rotated between two calls: its row is replaced
\* (sqlstore.go:49-52 then sqlstore.go:37-46); the same request comes again
RotateSecret(oauthID, secret) ==
    /\ jwtRes.done
    /\ jwtCalls < MaxCalls
    /\ store' = SaveCredentials(DeleteCredentials(store, oauthID, TRUE),
                                JwtRecord(oauthID, secret), TRUE)
    /\ store' # store
    /\ jwtRes' = Pending
    /\ jwtPrev' = jwtRes
    /\ UNCHANGED <<jwtReq, jwtCalls, stCall>>
    /\ UNCHANGED lifecycleVars

NextJWT ==
    \/ \E dbOk \in BOOLEAN : ParseSignedParamsCall(dbOk)
    \/ \E oauthID \in OAuthIDs, secret \in JwtSecrets : RotateSecret(oauthID, secret)

SpecJWT == InitJWT /\ [][NextJWT]_vars

\* store.go:243: NewSignedParams is exported and takes any *jwt.Token.  The
\* host decodes the request's token itself, without a key, and hands the
\* decoded token over; nothing in store.go:243-259 reads token.Valid.
NewSignedParamsCall ==
    /\ ~jwtRes.done
    /\ jwtCalls < MaxCalls
    /\ jwtReq.hasAuth \/ jwtReq.hasForm
    /\ (IF jwtReq.hasAuth THEN jwtReq.authTok ELSE jwtReq.formTok).wellFormed
    /\ jwtRes' = NewSignedParams((IF jwtReq.hasAuth THEN jwtReq.authTok
                                                     ELSE jwtReq.formTok).signed)
    /\ jwtCalls' = jwtCalls + 1
    /\ UNCHANGED <<store, jwtReq, jwtPrev, stCall>>
    /\ UNCHANGED lifecycleVars

\* every operation of the package that returns a *SignedParams
NextExported ==
    \/ NextJWT
    \/ NewSignedParamsCall

SpecExported == InitJWT /\ [][NextExported]_vars

\* ---------------------------------------------------------------- the store
\* The Store used on its own.  Rows as install requests can have created
\* them, with either secret: postgres_schema.sql:5-16 allows one row per
\* oauthId and one row per (groupId, roomId).
StoreRecords ==
    [capabilitiesUrl : {"cap"}, oauthId : OAuthIDs, oauthSecret : JwtSecrets,
     groupId : GroupIDs, roomId : RoomIDs]

StoreContents ==
    {st \in SUBSET StoreRecords :
        \A x, y \in st :
           (x.oauthId = y.oauthId \/ (x.groupId = y.groupId /\ x.roomId = y.roomId))
           => x = y}

InitStore ==
    /\ store \in StoreContents
    /\ tokens = <<>>
    /\ installationCallbacks = <<>>
    /\ removedCallbacks = <<>>
    /\ ops = [t \in OpIDs |-> IdleOp]
    /\ nOps = 0
    /\ nExch = 0
    /\ crashed = FALSE
    /\ jwtReq = NoRequest
    /\ jwtRes = Pending
    /\ jwtCalls = 0
    /\ jwtPrev = Pending
    /\ stCall = NoCall

\* sqlstore.go:37-46
StoreSaveCredentials(i, dbOk) ==
    /\ stCall' = [NoCall EXCEPT !.op = "save", !.rec = i, !.id = i.oauthId,
                                !.group = i.groupId, !.room = i.roomId,
                                !.dbOk = dbOk, !.pre = store,
                                !.err = IF ~dbOk THEN "store"
                                        ELSE IF SaveCredentialsErr(store, i, dbOk)
                                        THEN "constraint" ELSE ""]
    /\ store' = SaveCredentials(store, i, dbOk)
    /\ UNCHANGED lifecycleVars
    /\ UNCHANGED jwtVars

\* sqlstore.go:49-52
StoreDeleteCredentials(oAuthID, dbOk) ==
    /\ stCall' = [NoCall EXCEPT !.op = "delete", !.id = oAuthID, !.dbOk = dbOk,
                                !.pre = store,
                                !.err = IF DeleteCredentialsErr(store, oAuthID, dbOk)
                                        THEN "store" ELSE ""]
    /\ store' = DeleteCredentials(store, oAuthID, dbOk)
    /\ UNCHANGED lifecycleVars
    /\ UNCHANGED jwtVars

\* sqlstore.go:55-68, called as store.go:224 calls it, with group and room
StoreGetCredentials(groupID, roomID, dbOk, credentials) ==
    /\ credentials \in GetCredentials(store, groupID, roomID)
    /\ stCall' = [NoCall EXCEPT !.op = "get", !.group = groupID, !.room = roomID,
                                !.dbOk = dbOk, !.pre = store,
                                !.err = IF dbOk THEN "" ELSE "store",
                                !.out = IF dbOk THEN credentials ELSE NoRecord]
    /\ UNCHANGED store
    /\ UNCHANGED lifecycleVars
    /\ UNCHANGED jwtVars

NextStore ==
    \/ \E i \in StoreRecords, dbOk \in BOOLEAN : StoreSaveCredentials(i, dbOk)
    \/ \E oAuthID \in OAuthIDs, dbOk \in BOOLEAN : StoreDeleteCredentials(oAuthID, dbOk)
    \/ \E groupID \in GroupIDs, roomID \in RoomIDs, dbOk \in BOOLEAN :
          \E credentials \in StoreRecords \cup {NoRecord} :
             StoreGetCredentials(groupID, roomID, dbOk, credentials)

SpecStore == InitStore /\ [][NextStore]_vars

\* ---------------------------------------------------------------- claims
TenantKey(rec) == Key(rec.groupId, rec.roomId)

\* v was returned by an exchange made with the credentials of a record of
\* tenant k
IssuedFor(k, v) ==
    \E t \in OpIDs : /\ ops[t].tok = v /\ v # NoToken
                     /\ ops[t].rec \in InstallRecord
                     /\ TenantKey(ops[t].rec) = k
                     /\ ops[t].exch = <<<<ops[t].rec.oauthId, ops[t].rec.oauthSecret, <<>>>>>>

\* C1: when a removal's DeleteCredentials succeeds, the cache holds no entry
\* for any tenant key of the removed OAuth client.
C1_RemovalInvalidatesCache ==
    [][\A t \in OpIDs :
          (ops[t].kind = "none" /\ ops'[t].kind = "remove" /\ ops'[t].status = 200)
          => \A x \in ops'[t].pre : TenantKey(x) \notin DOMAIN tokens']_vars

\* C2: every cache entry under key "g:r" holds a token obtained by exchanging
\* the credentials of an install record of group g and room r.
C2_CacheEntriesBelongToTenant ==
    \A k \in DOMAIN tokens : IssuedFor(k, tokens[k])

\* the cache is cold and only GetTokenForRoom calls touch it: every install
\* ended without a token
ColdCacheGetsOnly ==
    \A t \in OpIDs : ops[t].kind = "install" => (ops[t].pc = "done" /\ ops[t].tok = NoToken)

\* C3: concurrent GetTokenForRoom calls on a cold cache: the process does
\* not abort, every cached value is a token an exchange returned for that
\* tenant, and a call that missed and returned without error made an
\* exchange and returns its token.
C3_ConcurrentGetsKeepCacheValid ==
    ColdCacheGetsOnly =>
        /\ ~crashed
        /\ \A k \in DOMAIN tokens : IssuedFor(k, tokens[k])
        /\ \A t \in OpIDs :
              (ops[t].kind = "get" /\ ops[t].pc = "done" /\ ops[t].tok # NoToken)
              => (nExch >= 1 /\ ops[t].res = ops[t].tok)

\* C4: no two goroutines are inside an access of the token map at the same
\* time when at least one of them writes.
C4_TokenMapMutualExclusion ==
    \A t, u \in OpIDs :
        (t # u /\ InAccess(t) /\ InAccess(u)) => (ops[t].pc = "reading" /\ ops[u].pc = "reading")

\* positions of the background goroutine started by handleInstalled
BackgroundPcs == {"exchange", "writing", "callbacks"}

\* C5: an install answered 200 keeps that answer, and no step of its
\* background token acquisition changes the store; the exchange is called at
\* most once, and a failed exchange ends the task with the record still
\* saved by it.
C5_ResponseIndependentOfExchange ==
    /\ [](\A t \in OpIDs :
            ops[t].kind = "install" =>
              /\ (ops[t].pc \in BackgroundPcs \/ ops[t].exch # <<>>) => ops[t].status = 200
              /\ Len(ops[t].exch) <= 1
              /\ ops[t].err = "exchange" =>
                   (ops[t].pc = "done" /\ ops[t].status = 200 /\ ops[t].tok = NoToken))
    /\ [][\A t \in OpIDs :
            (ops[t].kind = "install" /\ ops[t].status = 200)
            => /\ ops'[t].status = 200
               /\ ops'[t].rec = ops[t].rec
               /\ (ops'[t].pc # ops[t].pc => store' = store)]_vars

C5_Witness ==
    \E t \in OpIDs : /\ ops[t].kind = "install" /\ ops[t].status = 200
                     /\ ops[t].pc = "done" /\ ops[t].err = "exchange"
                     /\ ops[t].rec \in store

\* C6: the background task of a successful install calls the exchange with
\* exactly (oauthId, oauthSecret, []), and when its cache write completes
\* the cache maps the record's key "g:r" to the token the exchange returned.
C6_InstallCachesExchangedToken ==
    [][\A t \in OpIDs :
          (ops[t].kind = "install" /\ ops[t].pc = "writing" /\ ops'[t].pc = "callbacks")
          => /\ ops[t].exch = <<<<ops[t].rec.oauthId, ops[t].rec.oauthSecret, <<>>>>>>
             /\ TenantKey(ops[t].rec) \in DOMAIN tokens'
             /\ tokens'[TenantKey(ops[t].rec)] = ops[t].tok]_vars

\* C7: an install whose body does not decode or whose SaveCredentials fails
\* is answered 500 and ends there: no exchange, no callback, cache
\* unchanged; on a decode failure the store is unchanged too.
C7_FailedInstallIsTerminal ==
    /\ [](\A t \in OpIDs :
            (ops[t].kind = "install" /\ ops[t].status # 200)
            => /\ ops[t].status = 500 /\ ops[t].pc = "done"
               /\ ops[t].err \in {"decode", "store"}
               /\ ops[t].exch = <<>> /\ ops[t].cbs = <<>> /\ ops[t].tok = NoToken)
    /\ [][\A t \in OpIDs :
            (ops[t].kind = "none" /\ ops'[t].kind = "install" /\ ops'[t].status # 200)
            => /\ tokens' = tokens /\ nExch' = nExch
               /\ (ops'[t].err = "decode" => store' = store)]_vars
    /\ [][\A t \in OpIDs :
            (ops[t].kind = "install" /\ ops[t].status = 500) => ops'[t] = ops[t]]_vars

C7_Witness ==
    \E t, u \in OpIDs :
        /\ ops[t].kind = "install" /\ ops[t].status = 500 /\ ops[t].err = "decode"
        /\ ops[u].kind = "install" /\ ops[u].status = 500 /\ ops[u].err = "store"
        /\ store # {}

\* C8: a GetTokenForRoom call that misses stores the exchanged token under
\* the tenant key it looked up and returns it (so that the next call hits);
\* a hit returns the cached token without an exchange.
C8_MissCachesUnderLookupKey ==
    [][\A t \in OpIDs :
          (ops[t].kind = "get" /\ ops[t].pc # "done" /\ ops'[t].pc = "done"
             /\ ops'[t].err = "" /\ ops[t].key # "")
          => IF ops'[t].hit
             THEN ops'[t].exch = <<>> /\ ops'[t].res = tokens[ops[t].key]
             ELSE /\ Len(ops'[t].exch) = 1
                  /\ ops[t].key \in DOMAIN tokens'
                  /\ tokens'[ops[t].key] = ops'[t].res]_vars

\* C9: when no install record exists for the resolved tenant, the call
\* returns a credentials-not-found error: it does not crash, makes no
\* exchange and leaves the cache unchanged.
C9_NoRecordIsAnError ==
    [][\A t \in OpIDs :
          (ops[t].kind = "get" /\ ops[t].pc = "creds" /\ ops'[t].pc # "creds"
             /\ ops'[t].err # "store"
             /\ ~\E x \in store : x.groupId = ops[t].rec.groupId /\ x.roomId = ops[t].room)
          => /\ ops'[t].pc = "done" /\ ops'[t].err = "notfound"
             /\ ops'[t].exch = <<>> /\ tokens' = tokens]_vars

\* the token ParseSignedParams takes from the request (header first)
TokenOf(req) ==
    IF req.hasAuth /\ ToUpper(req.scheme) = "JWT " THEN req.authTok ELSE req.formTok

HasToken(req) == (req.hasAuth /\ ToUpper(req.scheme) = "JWT ") \/ req.hasForm

\* tok is an HMAC token for a string issuer that encodes a SignedParams
\* (an unsigned integer room_id, a string user_tz), signed with secret
EncodesParamsSignedWith(tok, secret) ==
    /\ tok.wellFormed
    /\ tok.signed.alg = "HS256"
    /\ tok.signed.iss.t = "string"
    /\ tok.signed.context.isMap
    /\ tok.signed.context.room_id.t = "number" /\ ~tok.signed.context.room_id.frac
    /\ tok.signed.context.user_tz.t = "string"
    /\ tok.sig = Sign("HS256", secret, tok.signed)

\* C10: a token signed with secret S for issuer I yields exactly the encoded
\* room_id and user_tz when the store returns S for I, and fails with an
\* invalid-signature error and no SignedParams when the store returns another
\* secret for I.
C10_SignatureDecidesResult ==
    (jwtRes.done /\ HasToken(jwtReq)) =>
      \A S \in JwtSecrets, x \in store :
        (EncodesParamsSignedWith(TokenOf(jwtReq), S) /\ x.oauthId = TokenOf(jwtReq).signed.iss.s)
        => IF jwtRes.err = "store" THEN jwtRes.params = NoSignedParams
           ELSE IF x.oauthSecret = S
           THEN /\ jwtRes.err = ""
                /\ jwtRes.params =
                     SignedParams(TokenOf(jwtReq).signed.context.room_id.n,
                                  TokenOf(jwtReq).signed.context.user_tz.s)
           ELSE /\ jwtRes.err = "signature is invalid"
                /\ jwtRes.params = NoSignedParams

C10_Witness ==
    /\ jwtRes = Result("", SignedParams(42, "UTC"))
    /\ jwtReq.hasAuth /\ jwtReq.scheme = "JWT " /\ jwtReq.authTok.signed = ScenarioInput
    /\ jwtCalls = 2
    /\ \E x \in store : x.oauthId = "abc" /\ jwtReq.authTok.sig = Sign("HS256", x.oauthSecret, ScenarioInput)

\* C11: a token whose signing method is not HMAC is rejected by
\* ParseSignedParams with an error and no SignedParams, for every issuer and
\* every secret of the store, the secret its signature was made with included.
C11_NonHmacRejected ==
    (jwtRes.done /\ HasToken(jwtReq) /\ TokenOf(jwtReq).wellFormed
       /\ TokenOf(jwtReq).signed.alg # "HS256")
    => jwtRes.err # "" /\ jwtRes.params = NoSignedParams

\* an RS256 token whose signature was made with the issuer's stored secret
C11_Witness ==
    /\ jwtRes = Result("unexpected signing method", NoSignedParams)
    /\ HasToken(jwtReq)
    /\ TokenOf(jwtReq).signed.alg = "RS256"
    /\ TokenOf(jwtReq).signed.context = ScenarioInput.context
    /\ \E x \in store :
          /\ TokenOf(jwtReq).signed.iss = JStr(x.oauthId)
          /\ TokenOf(jwtReq).sig = Sign("RS256", x.oauthSecret, TokenOf(jwtReq).signed)

\* tok carries an HMAC signature made with the secret st holds for its issuer
SignedByStore(tok, st) ==
    /\ tok.wellFormed
    /\ tok.signed.alg = "HS256"
    /\ tok.signed.iss.t = "string"
    /\ \E x \in st : /\ x.oauthId = tok.signed.iss.s
                     /\ tok.sig = Sign("HS256", x.oauthSecret, tok.signed)

\* the Authorization header carries a token: "JWT " in any letter case
JwtHeader(req) == req.hasAuth /\ req.scheme \in {"JWT ", "jwt "}

\* C12: when the Authorization header carries a "JWT " token (prefix in any
\* letter case) the result is the one of that token, whatever the
\* signed_request form field holds: a header token that encodes a SignedParams
\* under the stored secret yields it, a header token not signed with the
\* stored secret yields an error; with no such header and no form field the
\* result is the no-token error.
C12_HeaderBeforeForm ==
    jwtRes.done =>
      /\ JwtHeader(jwtReq) =>
            IF \E x \in store : /\ x.oauthId = jwtReq.authTok.signed.iss.s
                                /\ EncodesParamsSignedWith(jwtReq.authTok, x.oauthSecret)
            THEN /\ jwtRes.err \in {"", "store"}
                 /\ jwtRes.err = "" =>
                      jwtRes.params =
                        SignedParams(jwtReq.authTok.signed.context.room_id.n,
                                     jwtReq.authTok.signed.context.user_tz.s)
            ELSE ~SignedByStore(jwtReq.authTok, store)
                 => jwtRes.err # "" /\ jwtRes.params = NoSignedParams
      /\ (~JwtHeader(jwtReq) /\ ~jwtReq.hasForm)
            => jwtRes = Result("no token present in request", NoSignedParams)

\* header "jwt <valid token>" together with a form token that does not verify
C12_Witness ==
    /\ jwtReq.hasAuth /\ jwtReq.scheme = "jwt " /\ jwtReq.hasForm
    /\ SignedByStore(jwtReq.authTok, store)
    /\ ~SignedByStore(jwtReq.formTok, store)
    /\ jwtRes = Result("", SignedParams(42, "UTC"))

\* tok is a well-formed HMAC token that names a string issuer
HmacTokenOf(tok, issuer) ==
    tok.wellFormed /\ tok.signed.alg = "HS256" /\ tok.signed.iss = JStr(issuer)

\* C13: each verification uses the secret the store holds for the issuer at
\* the time of the call.  After the store changed between two calls with the
\* same token: a token the earlier call accepted and that is not signed with
\* the secret now stored is rejected without a SignedParams, and a token the
\* earlier call rejected and that is signed with the secret now stored passes
\* verification.  A store failure or an issuer with no row yields an error and
\* no SignedParams.
C13_SecretReadAtEachCall ==
    (jwtRes.done /\ HasToken(jwtReq)) =>
      /\ (jwtPrev.done /\ jwtPrev.err = "" /\ ~SignedByStore(TokenOf(jwtReq), store))
            => jwtRes.err # "" /\ jwtRes.params = NoSignedParams
      /\ \A x \in store :
            ( /\ jwtPrev.done /\ jwtPrev.err # ""
              /\ x.oauthId = TokenOf(jwtReq).signed.iss.s
              /\ EncodesParamsSignedWith(TokenOf(jwtReq), x.oauthSecret)
              /\ jwtRes.err # "store" )
            => jwtRes = Result("", SignedParams(TokenOf(jwtReq).signed.context.room_id.n,
                                                TokenOf(jwtReq).signed.context.user_tz.s))
      /\ \A issuer \in OAuthIDs :
            (HmacTokenOf(TokenOf(jwtReq), issuer) /\ \A x \in store : x.oauthId # issuer)
            => jwtRes.err \in {"unknown issuer", "store"} /\ jwtRes.params = NoSignedParams
      /\ jwtRes.err = "store" => jwtRes.params = NoSignedParams

\* accepted under the old secret, rejected once the secret was replaced
C13_Witness ==
    /\ jwtPrev = Result("", SignedParams(42, "UTC"))
    /\ jwtRes = Result("signature is invalid", NoSignedParams)
    /\ \E x \in store : HmacTokenOf(TokenOf(jwtReq), x.oauthId)

\* the errors of extracting claim field from the context
ExtractionErrors(field) ==
    {"Error extracting " \o field \o ": Missing signed parameter " \o field,
     "Error extracting " \o field \o ": Type mismatch for signed param " \o field}

\* C14: for a token whose signature verifies, ParseSignedParams returns an
\* error and no SignedParams when the context claim is not a key-value
\* structure, when room_id is absent or not a number, and when user_tz is
\* absent or not a string; the error text names context, room_id or user_tz
\* accordingly.
C14_MalformedClaimsAreErrors ==
    (jwtRes.done /\ HasToken(jwtReq) /\ SignedByStore(TokenOf(jwtReq), store)
       /\ jwtRes.err # "store")
    => /\ ~TokenOf(jwtReq).signed.context.isMap
            => jwtRes = Result("context of wrong type", NoSignedParams)
       /\ ( /\ TokenOf(jwtReq).signed.context.isMap
            /\ TokenOf(jwtReq).signed.context.room_id.t # "number" )
            => jwtRes.err \in ExtractionErrors("room_id") /\ jwtRes.params = NoSignedParams
       /\ ( /\ TokenOf(jwtReq).signed.context.isMap
            /\ TokenOf(jwtReq).signed.context.room_id.t = "number"
            /\ TokenOf(jwtReq).signed.context.user_tz.t # "string" )
            => jwtRes.err \in ExtractionErrors("user_tz") /\ jwtRes.params = NoSignedParams

\* a verified token with a numeric room_id and a numeric user_tz
C14_Witness ==
    /\ HasToken(jwtReq) /\ SignedByStore(TokenOf(jwtReq), store)
    /\ TokenOf(jwtReq).signed.context.room_id = JNum(42, FALSE)
    /\ TokenOf(jwtReq).signed.context.user_tz = JNum(1, FALSE)
    /\ jwtRes = Result("Error extracting user_tz: Type mismatch for signed param user_tz",
                       NoSignedParams)

\* C15: a SignedParams is returned only for a request one of whose tokens
\* carries a signature that verifies under the secret stored for its issuer.
C15_OnlyFromVerifiedToken ==
    (jwtRes.done /\ jwtRes.err = "")
    => \/ jwtReq.hasAuth /\ SignedByStore(jwtReq.authTok, store)
       \/ jwtReq.hasForm /\ SignedByStore(jwtReq.formTok, store)

\* C16: a GetCredentials that follows a successful SaveCredentials(record)
\* and is called with that record's group and room returns a record equal to
\* the one saved.
C16_SaveThenGetRoundTrip ==
    [][( /\ stCall.op = "save" /\ stCall.err = ""
         /\ stCall'.op = "get" /\ stCall'.err = ""
         /\ stCall'.group = stCall.rec.groupId
         /\ stCall'.room = stCall.rec.roomId )
       => stCall'.out = stCall.rec]_vars

\* C17: with the database reachable and no other client holding the
\* record's (group, room), saving a record whose OAuth id is already stored
\* returns no error and leaves exactly that record under the id.
C17_SaveReplacesDuplicate ==
    ( /\ stCall.op = "save" /\ stCall.dbOk
      /\ \E x \in stCall.pre : x.oauthId = stCall.id
      /\ \A x \in stCall.pre :
            x.oauthId # stCall.id
            => ~(x.groupId = stCall.group /\ x.roomId = stCall.room) )
    => /\ stCall.err = ""
       /\ {x \in store : x.oauthId = stCall.id} = {stCall.rec}

\* C18: with the database reachable, DeleteCredentials returns no error
\* whether or not a row has the id (a repeated call included), and leaves the
\* store without a row of that id and with every other row as it was.
C18_DeleteIsIdempotent ==
    (stCall.op = "delete" /\ stCall.dbOk)
    => /\ stCall.err = ""
       /\ store = {x \in stCall.pre : x.oauthId # stCall.id}

\* a delete of an id the store does not hold, other rows present
C18_Witness ==
    /\ stCall.op = "delete" /\ stCall.dbOk /\ stCall.err = ""
    /\ stCall.pre # {}
    /\ \A x \in stCall.pre : x.oauthId # stCall.id
    /\ store = stCall.pre

\* C19: the installation callbacks of an install are started only by its
\* background task after the exchange succeeded, each registered callback
\* once, at a moment when the cache holds under the install's tenant key a
\* token issued for that tenant; an install whose exchange failed never has a
\* callback started.
C19_CallbacksAfterTokenCached ==
    /\ [][\A t \in OpIDs :
            (ops[t].kind = "install" /\ ops'[t].cbs # ops[t].cbs)
            => /\ ops[t].pc = "callbacks" /\ ops[t].tok # NoToken
               /\ ops[t].cbs = <<>> /\ ops'[t].cbs = installationCallbacks
               /\ TenantKey(ops[t].rec) \in DOMAIN tokens
               /\ IssuedFor(TenantKey(ops[t].rec), tokens[TenantKey(ops[t].rec)])]_vars
    /\ [](\A t \in OpIDs :
            (ops[t].kind = "install" /\ ops[t].err # "") => ops[t].cbs = <<>>)

\* C20: a DELETE /installed/{oAuthId} request is answered 200 with every
\* registered removal callback started exactly when its DeleteCredentials
\* returned no error, a delete that matched no row included; when
\* DeleteCredentials returned an error it is answered 500 and no removal
\* callback is started.
C20_RemovalFollowsDeleteResult ==
    \A t \in OpIDs :
       ops[t].kind = "remove"
       => IF ops[t].err = ""
          THEN ops[t].status = 200 /\ ops[t].cbs = removedCallbacks
          ELSE ops[t].status = 500 /\ ops[t].cbs = <<>>

\* a removal on an empty store, with a removal callback registered
C20_Witness ==
    \E t \in OpIDs :
       /\ ops[t].kind = "remove" /\ ops[t].status = 200
       /\ ops[t].pre = {} /\ store = {}
       /\ ops[t].cbs = removedCallbacks /\ Len(removedCallbacks) > 0
       /\ \A u \in OpIDs : ops[u].kind \in {"none", "remove"}

\* C21: a GetTokenForRoom call that returns without an error returns a
\* token that an exchange issued for the tenant it looked up, and a call in
\* which a step failed returns an error with the empty token; the step in
\* which a call fails leaves the token cache as it was.
C21_GetTokenForRoomReportsFailures ==
    /\ [](\A t \in OpIDs :
            (ops[t].kind = "get" /\ ops[t].pc = "done")
            => IF ops[t].err = ""
               THEN ops[t].res # NoToken /\ IssuedFor(ops[t].key, ops[t].res)
               ELSE ops[t].res = NoToken)
    /\ [][\A t \in OpIDs :
            (ops'[t].kind = "get" /\ ops'[t].pc = "done" /\ ops[t].pc # "done"
               /\ ops'[t].res = NoToken)
            => tokens' = tokens]_vars
====
